---- MODULE Spec2Model ----
(***************************************************************************)
(* Store-monitoring backend: the uptime reconstruction engine              *)
(* (backend/services/report_runner.py), the ingest of polls                *)
(* (backend/services/ingest.py) and the report job API (backend/main.py).  *)
(*                                                                         *)
(* Time is counted in ticks, the resolution of the modelled clock          *)
(* (Python's datetime resolution, scaled): an hour is TicksPerHour ticks,  *)
(* tick 0 is a Monday 00:00 UTC.  A timedelta divided by an integer is     *)
(* rounded half-to-even to the resolution, as Python does.  Time zones are *)
(* fixed UTC offsets (no daylight-saving transitions).  The two-decimal    *)
(* values of a report row are integers counting hundredths.                *)
(***************************************************************************)
EXTENDS Integers, Sequences, FiniteSets, TLC

(***************************************************************************)
(* Bounds of the model.                                                    *)
(***************************************************************************)
TicksPerHour == 2
MaxPolls == 3
MaxReports == 1
MaxGets == 1

(***************************************************************************)
(* Durations (datetime.timedelta values of the source).                    *)
(***************************************************************************)
Hour == TicksPerHour
Day == 24 * Hour
Week == 7 * Day

DEFAULT_TZ == "America/Chicago"

Max(a, b) == IF a >= b THEN a ELSE b
Min(a, b) == IF a <= b THEN a ELSE b

\* n / d rounded to the nearest integer, ties to the even one (d > 0):
\* timedelta.__truediv__ and round().
RoundHalfEven(n, d) ==
  LET q == n \div d
      r == n % d
  IN  IF 2 * r < d THEN q
      ELSE IF 2 * r > d THEN q + 1
      ELSE IF q % 2 = 0 THEN q ELSE q + 1

TimeInterval(s, e) == [start |-> s, end |-> e]

overlap_seconds(self, other) ==
  LET s == Max(self.start, other.start)
      e == Min(self.end, other.end)
      delta == e - s
  IN  Max(0, delta)

(***************************************************************************)
(* Status reconstruction: midpoint interpolation between the polls, the    *)
(* first and the last poll extended by the margin, clipped to the extended *)
(* window; empty intervals are dropped.                                    *)
(***************************************************************************)
Mids(ps) ==
  [i \in 1..(Len(ps) - 1) |-> ps[i].t + RoundHalfEven(ps[i + 1].t - ps[i].t, 2)]

\* A slip: every poll extended by the margin on both sides, the midpoints
\* unused.
RawIntervalsNoMids(ps, margin) ==
  [i \in 1..Len(ps) |->
     [start |-> ps[i].t - margin, end |-> ps[i].t + margin, status |-> ps[i].status]]

RawIntervals(ps, margin) ==
  LET n == Len(ps)
      mids == Mids(ps)
  IN  [i \in 1..n |->
         [start  |-> IF i > 1 THEN mids[i - 1] ELSE ps[i].t - margin,
          end    |-> IF i < n THEN mids[i] ELSE ps[i].t + margin,
          status |-> ps[i].status]]

\* A slip: >= for >.
KeepClippedLoose(s2, e2) == e2 >= s2

\* if e2 > s2: clipped.append(...)
KeepClipped(s2, e2) == e2 > s2

_build_status_intervals_for_window(ps, window_start, window_end, margin) ==
  IF ps = << >> THEN << >>
  ELSE
    LET intervals == RawIntervals(ps, margin)
        window_ext_start == window_start - margin
        window_ext_end == window_end + margin
        clip(iv) == [start  |-> Max(iv.start, window_ext_start),
                     end    |-> Min(iv.end, window_ext_end),
                     status |-> iv.status]
        all == [i \in 1..Len(intervals) |-> clip(intervals[i])]
    IN  SelectSeq(all, LAMBDA iv : KeepClipped(iv.start, iv.end))

(***************************************************************************)
(* Time zones.  ZoneInfo(name) raises for a name that is no zone; the      *)
(* zones known to the model and their offsets from UTC, in hours.          *)
(***************************************************************************)
KnownZones == {"UTC", "America/Chicago", "Asia/Tokyo"}

UtcOffsetHours(zone) ==
  CASE zone = "UTC" -> 0
    [] zone = "America/Chicago" -> -6
    [] zone = "Asia/Tokyo" -> 9

\* The zone _get_business_intervals_for_window works in: tz_str or the
\* default, and the default again when ZoneInfo raises.
ResolveZone(tz_str) ==
  LET tzname == IF tz_str # "" THEN tz_str ELSE DEFAULT_TZ
  IN  IF tzname \in KnownZones THEN tzname ELSE DEFAULT_TZ

\* dt.astimezone(tz) of a UTC instant, as local wall-clock ticks, and back.
ToLocal(utc, zone) == utc + UtcOffsetHours(zone) * Hour
ToUtc(local, zone) == local - UtcOffsetHours(zone) * Hour

\* datetime.date() as a day number, date.weekday() (0 = Monday), and
\* datetime.combine(date, time).
DateOf(local) == local \div Day
Weekday(d) == d % 7
Combine(d, time_of_day) == d * Day + time_of_day

_get_timezone_for_store(tz_table, store_id) ==
  IF store_id \in DOMAIN tz_table /\ tz_table[store_id] # ""
  THEN tz_table[store_id]
  ELSE DEFAULT_TZ

(***************************************************************************)
(* Business-hours expansion.                                               *)
(***************************************************************************)
\* One schedule row on one local date, clipped to the window.
RowInterval(bh, cur_date, zone, window_start_utc, window_end_utc) ==
  LET s_local == Combine(cur_date, bh.start_time_local)
      e0 == Combine(cur_date, bh.end_time_local)
      e_local == IF e0 <= s_local THEN e0 + Day ELSE e0
      s_utc == ToUtc(s_local, zone)
      e_utc == ToUtc(e_local, zone)
  IN  TimeInterval(Max(s_utc, window_start_utc), Min(e_utc, window_end_utc))

\* The while loop over cur_date: the rows of each date's weekday, in table
\* order, the non-empty clipped intervals appended.
RECURSIVE ExpandDates(_, _, _, _, _, _)
ExpandDates(bh_rows, cur_date, end_date, zone, ws, we) ==
  IF cur_date > end_date THEN << >>
  ELSE
    LET rows == SelectSeq(bh_rows, LAMBDA bh : bh.day_of_week = Weekday(cur_date))
        ivs == [i \in 1..Len(rows) |-> RowInterval(rows[i], cur_date, zone, ws, we)]
    IN  SelectSeq(ivs, LAMBDA it : it.end > it.start)
          \o ExpandDates(bh_rows, cur_date + 1, end_date, zone, ws, we)

\* list.sort(key=start): a stable sort.
RECURSIVE InsertByStart(_, _)
InsertByStart(sorted, it) ==
  IF sorted = << >> THEN << it >>
  ELSE IF it.start < Head(sorted).start THEN << it >> \o sorted
  ELSE << Head(sorted) >> \o InsertByStart(Tail(sorted), it)

RECURSIVE SortByStart(_)
SortByStart(seq) ==
  IF seq = << >> THEN << >>
  ELSE InsertByStart(SortByStart(SubSeq(seq, 1, Len(seq) - 1)), seq[Len(seq)])

\* The merge loop: an interval that starts at or before the running end is
\* absorbed into the last merged interval.
RECURSIVE MergeInto(_, _)
MergeInto(merged, rest) ==
  IF rest = << >> THEN merged
  ELSE
    LET it == Head(rest)
        last == merged[Len(merged)]
    IN  IF it.start <= last.end
        THEN MergeInto([merged EXCEPT ![Len(merged)].end = Max(last.end, it.end)],
                       Tail(rest))
        ELSE MergeInto(Append(merged, it), Tail(rest))

_get_business_intervals_for_window(bh_table, store_id, window_start_utc, window_end_utc, tz_str) ==
  LET zone == ResolveZone(tz_str)
      bh_rows == SelectSeq(bh_table, LAMBDA bh : bh.store_id = store_id)
  IN  IF bh_rows = << >>
      THEN << TimeInterval(window_start_utc, window_end_utc) >>
      ELSE
        LET start_date == DateOf(ToLocal(window_start_utc, zone)) - 1
            end_date == DateOf(ToLocal(window_end_utc, zone)) + 1
            biz_intervals == ExpandDates(bh_rows, start_date, end_date, zone,
                                         window_start_utc, window_end_utc)
        IN  IF biz_intervals = << >> THEN << >>
            ELSE LET sorted == SortByStart(biz_intervals)
                 IN  MergeInto(<< Head(sorted) >>, Tail(sorted))

(***************************************************************************)
(* The per-store aggregator.                                               *)
(***************************************************************************)
\* str.lower() on the statuses of the model.
Lower(status) ==
  CASE status = "ACTIVE" -> "active"
    [] status = "Active" -> "active"
    [] OTHER -> status

RECURSIVE SumTo(_, _)
SumTo(f, n) == IF n = 0 THEN 0 ELSE f[n] + SumTo(f, n - 1)

\* sum(f[i] for i in 1..Len(f))
SumSeq(f) == SumTo(f, Len(f))

total_business_seconds(biz_intervals) ==
  SumSeq([i \in 1..Len(biz_intervals) |-> biz_intervals[i].end - biz_intervals[i].start])

\* The nested loops of _compute: the overlap of every active status interval
\* with every business interval.
uptime_seconds(biz_intervals, status_intervals) ==
  SumSeq([i \in 1..Len(biz_intervals) |->
    SumSeq([j \in 1..Len(status_intervals) |->
      LET overlap == overlap_seconds(status_intervals[j], biz_intervals[i])
      IN  IF overlap <= 0 THEN 0
          ELSE IF Lower(status_intervals[j].status) = "active" THEN overlap
          ELSE 0])])

\* A slip: no status intervals taken as nothing to report.
ComputeNoPollsZero(biz_intervals, status_intervals) ==
  LET total == total_business_seconds(biz_intervals)
  IN  IF total <= 0 \/ status_intervals = << >> THEN << 0, 0 >>
      ELSE
        LET up == uptime_seconds(biz_intervals, status_intervals)
        IN  << Max(0, up), Max(0, total - up) >>

\* << uptime, downtime >>, in ticks.
_compute(biz_intervals, status_intervals) ==
  LET total == total_business_seconds(biz_intervals)
  IN  IF total <= 0 THEN << 0, 0 >>
      ELSE IF status_intervals = << >> THEN << 0, total >>
      ELSE
        LET up == uptime_seconds(biz_intervals, status_intervals)
            down == total - up
        IN  << Max(0, up), Max(0, down) >>

\* round(_seconds_to_minutes(sec), 2) and round(_seconds_to_hours(sec), 2) of
\* a duration in ticks, in hundredths of a minute and of an hour.
RoundedMinutes(ticks) == RoundHalfEven(ticks * 60 * 100, TicksPerHour)
RoundedHours(ticks) == RoundHalfEven(ticks * 100, TicksPerHour)

\* A stored timestamp is an instant in ticks since the epoch: a naive value
\* is taken as UTC and an aware one converted to UTC, the instant is the same.
_ensure_aware_utc(dt) == dt

\* The possible results of the query: the store's polls in the extended
\* window, ascending by timestamp; the order of polls that share a timestamp
\* is not determined by the query.  A result is a sequence of [t, status].
_fetch_polls_for_store(table, store_id, window_start, window_end, margin) ==
  LET idx == {i \in 1..Len(table) :
                /\ table[i].store_id = store_id
                /\ table[i].timestamp_utc >= window_start - margin
                /\ table[i].timestamp_utc <= window_end + margin}
      k == Cardinality(idx)
      orders == {o \in [1..k -> idx] :
                   \A i, j \in 1..k :
                     i < j => /\ o[i] # o[j]
                              /\ table[o[i]].timestamp_utc <= table[o[j]].timestamp_utc}
  IN  {[i \in 1..k |-> [t      |-> _ensure_aware_utc(table[o[i]].timestamp_utc),
                        status |-> table[o[i]].status]] : o \in orders}

\* The possible runs of the aggregator for a store, one per result of the
\* poll query: the values computed on the way (kept for the properties) and
\* the row returned.
compute_uptime_for_store_internal(poll_table, bh_table, tz_table, store_id, now_utc) ==
  LET window_hour_start == now_utc - Hour
      window_day_start == now_utc - 24 * Hour
      window_week_start == now_utc - 7 * Day
      margin == 12 * Hour
      tz_str == _get_timezone_for_store(tz_table, store_id)
      overall_start == window_week_start - Day
      overall_end == now_utc + Hour
      biz_hour == _get_business_intervals_for_window(bh_table, store_id,
                                                     window_hour_start, now_utc, tz_str)
      biz_day == _get_business_intervals_for_window(bh_table, store_id,
                                                    window_day_start, now_utc, tz_str)
      biz_week == _get_business_intervals_for_window(bh_table, store_id,
                                                     window_week_start, now_utc, tz_str)
      run(polls) ==
        LET status_intervals ==
              _build_status_intervals_for_window(polls, overall_start, overall_end, margin)
            hr == _compute(biz_hour, status_intervals)
            dy == _compute(biz_day, status_intervals)
            wk == _compute(biz_week, status_intervals)
        IN  [store_id |-> store_id,
             now_utc |-> now_utc,
             polls |-> polls,
             overall_start |-> overall_start,
             overall_end |-> overall_end,
             margin |-> margin,
             status_intervals |-> status_intervals,
             windows |-> << TimeInterval(window_hour_start, now_utc),
                            TimeInterval(window_day_start, now_utc),
                            TimeInterval(window_week_start, now_utc) >>,
             biz |-> << biz_hour, biz_day, biz_week >>,
             seconds |-> << hr, dy, wk >>,
             row |-> [store_id |-> store_id,
                      uptime_last_hour_minutes |-> RoundedMinutes(hr[1]),
                      uptime_last_day_hours |-> RoundedHours(dy[1]),
                      uptime_last_week_hours |-> RoundedHours(wk[1]),
                      downtime_last_hour_minutes |-> RoundedMinutes(hr[2]),
                      downtime_last_day_hours |-> RoundedHours(dy[2]),
                      downtime_last_week_hours |-> RoundedHours(wk[2])]]
  IN  {run(polls) : polls \in _fetch_polls_for_store(poll_table, store_id, overall_start,
                                                    overall_end, margin)}

(***************************************************************************)
(* State.  The database tables (a sequence is a table in row-id order),    *)
(* the last run of the aggregator, and the report job machinery.           *)
(***************************************************************************)
VARIABLES
  polls,             \* Poll rows [store_id, timestamp_utc, status]
  business_hours,    \* BusinessHour rows [store_id, day_of_week, start_time_local, end_time_local]
  store_timezones,   \* StoreTimezone rows: store_id -> timezone_str
  call,              \* the last run of the aggregator on the tables as they are, or NoCall
  reports,           \* Report rows: report_id -> [status, percent_complete, finished_at, csv_path]
  task,              \* report_id -> the state of its background task _run_and_store
  open_sessions,     \* operation -> the sessions it opened that are still open
  files,             \* report_id -> the CSV file at the report's output path
  response           \* the last response of the HTTP API

dbVars == << polls, business_hours, store_timezones >>
jobVars == << reports, task, open_sessions, files, response >>
vars == << polls, business_hours, store_timezones, call, reports, task, open_sessions,
           files, response >>

NoCall == [store_id |-> "none"]

(***************************************************************************)
(* Inputs of the aggregator specification.                                 *)
(***************************************************************************)
\* A Monday, 18:00 UTC.
T0 == 14 * Day + 18 * Hour

NowChoices == {T0, T0 + 5 * Hour + 1}

StoreIds == {"A", "B"}

\* A timestamp_utc field of store_status.csv: missing, text that does not
\* parse, ISO-8601 without a zone (wall-clock ticks), or with a UTC offset
\* in hours.
Missing == [kind |-> "missing", wall |-> 0, offset |-> 0]
Garbage == [kind |-> "garbage", wall |-> 0, offset |-> 0]
Naive(t) == [kind |-> "naive", wall |-> t, offset |-> 0]
Aware(t, off) == [kind |-> "aware", wall |-> t, offset |-> off]

\* Rows of store_status.csv: [store_id, timestamp_utc, status]; a store_id or
\* status that is missing is "".
CsvRow(s, ts, st) == [store_id |-> s, timestamp_utc |-> ts, status |-> st]

CsvPollRows ==
  { CsvRow("A", Naive(T0 - 9 * Day), "active"),
    CsvRow("A", Naive(T0 - 30 * Hour), "active"),
    CsvRow("A", Naive(T0 - 3), "inactive"),
    CsvRow("A", Aware(T0 - 3 + 2 * Hour, 2), "Active"),
    CsvRow("A", Naive(T0 + 1), "active"),
    CsvRow("B", Naive(T0 - 3), "active") }

\* The CSV files given to load_polls.
CsvPollFiles ==
  {<< r >> : r \in CsvPollRows}
  \cup {<< CsvRow("A", Missing, "active"),
           CsvRow("", Naive(T0 + 1), "inactive"),
           CsvRow("A", Naive(T0 - 30 * Hour), "active"),
           CsvRow("A", Garbage, "active"),
           CsvRow("A", Naive(T0 + 1), ""),
           CsvRow("A", Naive(T0 + 1), "active") >>}

BH(s, dow, st, en) ==
  [store_id |-> s, day_of_week |-> dow, start_time_local |-> st, end_time_local |-> en]

\* Schedules and time zones the aggregator is run with:
\* [business_hours, store_timezones].
Schedules ==
  { \* no schedule rows, no timezone row
    [bh |-> << >>, tz |-> << >>],
    \* known only through a timezone row
    [bh |-> << >>, tz |-> [s \in {"A"} |-> "UTC"]],
    \* Monday 09:00-17:00, default zone
    [bh |-> << BH("A", 0, 9 * Hour, 17 * Hour) >>, tz |-> << >>],
    \* overnight, overlapping and touching rows, a zone east of UTC; a row of
    \* another store
    [bh |-> << BH("A", 0, 22 * Hour, 2 * Hour), BH("A", 1, 0, 3 * Hour),
               BH("A", 0, 12 * Hour, 22 * Hour), BH("B", 0, 0, 0) >>,
     tz |-> [s \in {"A"} |-> "Asia/Tokyo"]],
    \* every day, around the clock (end = start), a name that is no zone
    [bh |-> [d \in 1..7 |-> BH("A", d - 1, 6 * Hour, 6 * Hour)],
     tz |-> [s \in {"A"} |-> "Not/AZone"]],
    \* a day of the week that no date has: the store is never open
    [bh |-> << BH("A", 7, 0, 12 * Hour) >>, tz |-> [s \in {"A", "B"} |-> "UTC"]] }

(***************************************************************************)
(* The report job: identifiers, rows and the idle state.                   *)
(***************************************************************************)
\* uuid4 values; one more than the reports that are triggered, so that an
\* unknown report_id exists.
ReportIds == 1..(MaxReports + 1)

Operations == {"trigger_report", "get_report", "_run_and_store",
               "compute_uptime_for_store_internal", "generate_report"}

\* The store ids of the model in ascending (lexicographic) order.
StoreOrder == << "A", "B", "C" >>
StoreRank(store_id) == CHOOSE i \in 1..Len(StoreOrder) : StoreOrder[i] = store_id

\* percent_complete as a fraction << numerator, denominator >> in lowest
\* terms.
RECURSIVE Gcd(_, _)
Gcd(a, b) == IF b = 0 THEN a ELSE Gcd(b, a % b)
Fraction(n, d) == LET g == Gcd(n, d) IN << n \div g, d \div g >>
Leq(p, q) == p[1] * q[2] <= q[1] * p[2]
Hundred == Fraction(100, 1)

\* A slip: the share of the stores still to do.
PercentRemaining(done, total) == Fraction((total - done) * 100, total)

\* (done / total) * 100.0
Percent(done, total) == Fraction(done * 100, total)

\* max(1, min(5, total // 20 or 1))
update_every(total) ==
  Max(1, Min(5, IF total \div 20 # 0 THEN total \div 20 ELSE 1))

\* The row written for a store whose worker raised.
ZeroRow(sid) ==
  [store_id |-> sid,
   uptime_last_hour_minutes |-> 0,
   uptime_last_day_hours |-> 0,
   uptime_last_week_hours |-> 0,
   downtime_last_hour_minutes |-> 0,
   downtime_last_day_hours |-> 0,
   downtime_last_week_hours |-> 0]

\* Report(report_id=..., status='Running') with the column defaults.
\* f"/app/data/reports/{report_id}.csv", and a NULL csv_path.
OutPath(report_id) == << "/app/data/reports", report_id >>
NoPath == << >>

NewReport ==
  [status |-> "Running", percent_complete |-> Fraction(0, 1),
   finished_at |-> "NULL", csv_path |-> NoPath]

NoFile == [state |-> "absent", rows |-> << >>]
\* An HTTP response: the operation, the report_id it was about, the status of
\* the Report row the handler read ("none": no row), the keys of the JSON
\* body and the values of its status and csv_path keys.
Response(op, report_id, seen, keys, status, csv_path) ==
  [op |-> op, report_id |-> report_id, seen |-> seen, keys |-> keys,
   status |-> status, csv_path |-> csv_path]
NoResponse == Response("none", 0, "none", {}, "none", NoPath)

NewTask ==
  [pc |-> "scheduled", now_utc |-> 0, store_ids |-> << >>, total |-> 0,
   executed |-> << >>, futures |-> << >>, rows |-> << >>, done |-> 0,
   fault |-> "none", raised |-> FALSE]

JobIdle ==
  /\ reports = << >>
  /\ task = << >>
  /\ open_sessions = [op \in Operations |-> 0]
  /\ files = [r \in ReportIds |-> NoFile]
  /\ response = NoResponse

\* SessionLocal() and session.close().
Opened(sessions, op) == [sessions EXCEPT ![op] = @ + 1]
Closed(sessions, op) == [sessions EXCEPT ![op] = @ - 1]

(***************************************************************************)
(* Ingest of polls (backend/services/ingest.py).                           *)
(***************************************************************************)
\* Whether date_parser.parse accepts the text, and the UTC instant
\* _parse_utc_timestamp gives: a naive time is taken as UTC, an aware one is
\* converted.
Parses(ts_raw) == ts_raw.kind \in {"naive", "aware"}
_parse_utc_timestamp(ts_raw) ==
  IF ts_raw.kind = "naive" THEN ts_raw.wall
  ELSE ts_raw.wall - ts_raw.offset * Hour

\* The Poll objects load_polls builds from the rows of the file: a row with
\* a missing field or a timestamp that does not parse is skipped.
RECURSIVE PollObjects(_)
PollObjects(csv) ==
  IF csv = << >> THEN << >>
  ELSE
    LET r == Head(csv)
    IN  IF r.store_id = "" \/ r.status = "" \/ r.timestamp_utc.kind = "missing"
        THEN PollObjects(Tail(csv))
        ELSE IF ~Parses(r.timestamp_utc) THEN PollObjects(Tail(csv))
        ELSE << [store_id |-> r.store_id,
                 timestamp_utc |-> _parse_utc_timestamp(r.timestamp_utc),
                 status |-> r.status] >> \o PollObjects(Tail(csv))

load_polls(csv, replace) ==
  LET kept == IF replace THEN << >> ELSE polls
      rows == PollObjects(csv)
  IN  /\ Len(kept) + Len(rows) <= MaxPolls
      /\ polls' = kept \o rows
      /\ call' = NoCall
      /\ UNCHANGED << business_hours, store_timezones >>
      /\ UNCHANGED jobVars

(***************************************************************************)
(* A run of the aggregator on its own, for any store and reference         *)
(* instant.                                                                *)
(***************************************************************************)
RunAggregator(store_id, now_utc) ==
  /\ \E run \in compute_uptime_for_store_internal(polls, business_hours, store_timezones,
                                                  store_id, now_utc) :
       call' = run
  /\ UNCHANGED dbVars
  /\ UNCHANGED jobVars

InitAgg ==
  /\ polls = << >>
  /\ \E sc \in Schedules :
       /\ business_hours = sc.bh
       /\ store_timezones = sc.tz
  /\ call = NoCall
  /\ JobIdle

NextAgg ==
  \/ \E csv \in CsvPollFiles, replace \in BOOLEAN : load_polls(csv, replace)
  \/ \E store_id \in StoreIds, now_utc \in NowChoices : RunAggregator(store_id, now_utc)

SpecAgg == InitAgg /\ [][NextAgg]_vars

(***************************************************************************)
(* The job API (backend/main.py).  A handler is one step; the background   *)
(* task of a report runs after the response, concurrently with the API.    *)
(***************************************************************************)
trigger_report(report_id) ==
  /\ report_id \notin DOMAIN reports
  /\ Cardinality(DOMAIN reports) < MaxReports
  /\ open_sessions' = Opened(open_sessions, "trigger_report")
  /\ reports' = reports @@ (report_id :> NewReport)
  /\ task' = task @@ (report_id :> NewTask)
  /\ response' = Response("trigger_report", report_id, "none", {"report_id"}, "none", NoPath)
  /\ UNCHANGED << files, call >>
  /\ UNCHANGED dbVars

get_report(report_id) ==
  /\ open_sessions["get_report"] < MaxGets
  /\ open_sessions' = Opened(open_sessions, "get_report")
  /\ response' =
       IF report_id \notin DOMAIN reports
       THEN Response("get_report", report_id, "none", {"status"}, "NotFound", NoPath)
       ELSE LET rep == reports[report_id]
            IN  IF rep.status # "Complete"
                THEN Response("get_report", report_id, rep.status, {"status"},
                              rep.status, NoPath)
                ELSE Response("get_report", report_id, rep.status, {"status", "csv_path"},
                              "Complete", rep.csv_path)
  /\ UNCHANGED << reports, task, files, call >>
  /\ UNCHANGED dbVars

(***************************************************************************)
(* The report orchestrator (generate_report) inside _run_and_store.  A     *)
(* run of a worker is one step (it opens and closes its own session), so   *)
(* the size of the worker pool does not show.                              *)
(***************************************************************************)
Range(seq) == {seq[i] : i \in 1..Len(seq)}

\* max(Poll.timestamp_utc), or the wall clock when there is no poll.
_get_now_from_db(poll_table, wall_clock) ==
  IF poll_table = << >> THEN wall_clock
  ELSE CHOOSE t \in {poll_table[i].timestamp_utc : i \in 1..Len(poll_table)} :
         \A i \in 1..Len(poll_table) : poll_table[i].timestamp_utc <= t

\* sorted(ids)
_gather_store_ids(poll_table, bh_table, tz_table) ==
  LET ids == {poll_table[i].store_id : i \in 1..Len(poll_table)}
             \cup {bh_table[i].store_id : i \in 1..Len(bh_table)}
             \cup DOMAIN tz_table
  IN  SelectSeq(StoreOrder, LAMBDA sid : sid \in ids)

Future(state, exc, result) == [state |-> state, exc |-> exc, result |-> result]

\* The task once generate_report has returned or raised: its locals are gone;
\* the count of aggregator runs per store is kept.
Left(t, pc, fault) ==
  [NewTask EXCEPT !.pc = pc, !.fault = fault, !.executed = t.executed]

\* _run_and_store opens its session; generate_report creates the output
\* directory, chooses now and enumerates the stores.
RunStart(r) ==
  /\ r \in DOMAIN task
  /\ task[r].pc = "scheduled"
  /\ open_sessions' = Opened(open_sessions, "_run_and_store")
  /\ \E outcome \in {"ok", "makedirs_raises", "now_raises", "gather_raises"},
        wall_clock \in NowChoices :
       LET ids == _gather_store_ids(polls, business_hours, store_timezones)
       IN  task' =
             IF outcome # "ok"
             THEN [task EXCEPT ![r] = Left(@, "except", "report_level")]
             ELSE [task EXCEPT
                     ![r].pc = IF Len(ids) = 0 THEN "write_csv" ELSE "pool1",
                     ![r].now_utc = _get_now_from_db(polls, wall_clock),
                     ![r].store_ids = ids,
                     ![r].total = Len(ids),
                     ![r].executed = [sid \in Range(ids) |-> 0],
                     ![r].futures = [sid \in Range(ids) |->
                                       Future("pending", FALSE, ZeroRow(sid))]]
  /\ UNCHANGED << reports, files, response, call >>
  /\ UNCHANGED dbVars

\* The first pool (report_runner.py:258-259): every store is submitted and
\* run; the futures are dropped.
Worker1(r, sid) ==
  /\ r \in DOMAIN task
  /\ task[r].pc = "pool1"
  /\ sid \in DOMAIN task[r].executed
  /\ task[r].executed[sid] = 0
  /\ task' = [task EXCEPT ![r].executed[sid] = @ + 1]
  /\ open_sessions' = Closed(Opened(open_sessions, "compute_uptime_for_store_internal"),
                             "compute_uptime_for_store_internal")
  /\ UNCHANGED << reports, files, response, call >>
  /\ UNCHANGED dbVars

\* Leaving the first with block waits for its workers.
PoolJoin1(r) ==
  /\ r \in DOMAIN task
  /\ task[r].pc = "pool1"
  /\ \A sid \in DOMAIN task[r].executed : task[r].executed[sid] = 1
  /\ task' = [task EXCEPT ![r].pc = "pool2", ![r].rows = << >>, ![r].done = 0]
  /\ UNCHANGED << reports, open_sessions, files, response, call >>
  /\ UNCHANGED dbVars

\* A slip: the row of a store whose worker raised is left out.
RowsAfterDropRaised(rows, sid, fut) ==
  IF fut.exc THEN rows ELSE Append(rows, fut.result)

\* try: rows.append(fut.result()) except Exception: rows.append(zero row)
RowsAfter(rows, sid, fut) ==
  IF fut.exc THEN Append(rows, ZeroRow(sid)) ELSE Append(rows, fut.result)

\* A worker of the second pool finishes (the aggregator returns a row or
\* raises) and the as_completed loop takes its future: the row is appended,
\* and progress is published (a session s2 of its own) every update_every
\* completions and on the last one.  A job-state update that fails is
\* modelled at the last update and in _run_and_store, not here.
\* Nothing but the loop reads a finished future, so the two are one step.
Collect(r, sid) ==
  /\ r \in DOMAIN task
  /\ task[r].pc = "pool2"
  /\ sid \in DOMAIN task[r].futures
  /\ task[r].futures[sid].state = "pending"
  /\ LET t == task[r]
         done == t.done + 1
         publish == done % update_every(t.total) = 0 \/ done = t.total
     IN  /\ \E raises \in BOOLEAN :
              \E run \in compute_uptime_for_store_internal(polls, business_hours,
                                                           store_timezones, sid, t.now_utc) :
                LET fut == IF raises THEN Future("collected", TRUE, ZeroRow(sid))
                           ELSE Future("collected", FALSE, run.row)
                IN  task' = [task EXCEPT
                               ![r].executed[sid] = @ + 1,
                               ![r].futures[sid] = fut,
                               ![r].rows = RowsAfter(t.rows, sid, fut),
                               ![r].done = done,
                               ![r].pc = IF done = t.total THEN "write_csv" ELSE "pool2"]
         /\ reports' =
              IF publish /\ r \in DOMAIN reports
              THEN [reports EXCEPT ![r].percent_complete = Percent(done, t.total)]
              ELSE reports
         /\ open_sessions' =
              LET worker == Closed(Opened(open_sessions, "compute_uptime_for_store_internal"),
                                   "compute_uptime_for_store_internal")
              IN  IF publish
                  THEN Closed(Opened(worker, "generate_report"), "generate_report")
                  ELSE worker
  /\ UNCHANGED << files, response, call >>
  /\ UNCHANGED dbVars

\* df.to_csv(out_csv_path): the file is written, or to_csv raises before it
\* opened the file, or after (a partial file is left).
WriteCsv(r) ==
  /\ r \in DOMAIN task
  /\ task[r].pc = "write_csv"
  /\ \E outcome \in {"ok", "raises_unopened", "raises_partial"} :
       /\ files' =
            CASE outcome = "ok" ->
                   [files EXCEPT ![r] = [state |-> "complete", rows |-> task[r].rows]]
              [] outcome = "raises_partial" ->
                   [files EXCEPT ![r] = [state |-> "partial", rows |-> << >>]]
              [] OTHER -> files
       /\ task' =
            IF outcome = "ok"
            THEN IF task[r].total = 0
                 THEN [task EXCEPT ![r] = Left(@, "returned", "none")]
                 ELSE [task EXCEPT ![r].pc = "final_update"]
            ELSE [task EXCEPT ![r] = Left(@, "except", "report_level")]
  /\ UNCHANGED << reports, open_sessions, response, call >>
  /\ UNCHANGED dbVars

\* The last update of generate_report (report_runner.py:311-325), in a
\* session s3 of its own; an exception is passed over.
FinalUpdate(r) ==
  /\ r \in DOMAIN task
  /\ task[r].pc = "final_update"
  /\ \E committed \in BOOLEAN :
       reports' =
         IF committed /\ r \in DOMAIN reports
         THEN [reports EXCEPT ![r].percent_complete = Hundred, ![r].finished_at = "set"]
         ELSE reports
  /\ open_sessions' = Closed(Opened(open_sessions, "generate_report"), "generate_report")
  /\ task' = [task EXCEPT ![r] = Left(@, "returned", "none")]
  /\ UNCHANGED << files, response, call >>
  /\ UNCHANGED dbVars

\* generate_report has returned (main.py:53-58): the row is marked Complete
\* and the session closed, or the read or the commit raises.
MarkComplete(r) ==
  /\ r \in DOMAIN task
  /\ task[r].pc = "returned"
  /\ \E raises \in BOOLEAN :
       IF raises
       THEN /\ task' = [task EXCEPT ![r].pc = "except", ![r].fault = "job_state"]
            /\ UNCHANGED << reports, open_sessions >>
       ELSE /\ reports' = [reports EXCEPT
                             ![r].status = "Complete",
                             ![r].csv_path = OutPath(r),
                             ![r].percent_complete = Hundred,
                             ![r].finished_at = "set"]
            /\ task' = [task EXCEPT ![r].pc = "done"]
            /\ open_sessions' = Closed(open_sessions, "_run_and_store")
  /\ UNCHANGED << files, response, call >>
  /\ UNCHANGED dbVars

\* The except branch of _run_and_store (main.py:59-72): the row is marked
\* Failed, unless that read or commit raises too; the exception is raised
\* again and the session closed.
MarkFailed(r) ==
  /\ r \in DOMAIN task
  /\ task[r].pc = "except"
  /\ \E committed \in BOOLEAN :
       reports' =
         IF committed /\ r \in DOMAIN reports
         THEN [reports EXCEPT
                 ![r].status = "Failed",
                 ![r].percent_complete = Hundred,
                 ![r].finished_at = "set"]
         ELSE reports
  /\ task' = [task EXCEPT ![r].pc = "done", ![r].raised = TRUE]
  /\ open_sessions' = Closed(open_sessions, "_run_and_store")
  /\ UNCHANGED << files, response, call >>
  /\ UNCHANGED dbVars

(***************************************************************************)
(* The datasets the job specification starts from.                         *)
(***************************************************************************)
PollRow(s, t, st) == [store_id |-> s, timestamp_utc |-> t, status |-> st]

Datasets ==
  { \* empty tables
    [polls |-> << >>, bh |-> << >>, tz |-> << >>],
    \* A has polls and a timezone, B is known only through its schedule
    [polls |-> << PollRow("A", T0 - 3 * Hour, "Active"), PollRow("A", T0, "inactive") >>,
     bh |-> << BH("B", 0, 9 * Hour, 17 * Hour) >>,
     tz |-> [s \in {"A"} |-> "UTC"]] }

Init ==
  /\ \E d \in Datasets :
       /\ polls = d.polls
       /\ business_hours = d.bh
       /\ store_timezones = d.tz
  /\ call = NoCall
  /\ JobIdle

Next ==
  \/ \E r \in ReportIds : trigger_report(r)
  \/ \E r \in ReportIds : get_report(r)
  \/ \E r \in ReportIds : RunStart(r)
  \/ \E r \in ReportIds, sid \in Range(StoreOrder) : Worker1(r, sid)
  \/ \E r \in ReportIds : PoolJoin1(r)
  \/ \E r \in ReportIds, sid \in Range(StoreOrder) : Collect(r, sid)
  \/ \E r \in ReportIds : WriteCsv(r)
  \/ \E r \in ReportIds : FinalUpdate(r)
  \/ \E r \in ReportIds : MarkComplete(r)
  \/ \E r \in ReportIds : MarkFailed(r)

Spec == Init /\ [][Next]_vars

(***************************************************************************)
(* Properties of the aggregator (specification SpecAgg).                   *)
(***************************************************************************)
HasPolls(store_id) == \E i \in 1..Len(polls) : polls[i].store_id = store_id
HasSchedule(store_id) ==
  \E i \in 1..Len(business_hours) : business_hours[i].store_id = store_id

\* C1: for every store, reference instant and trailing window (1h, 24h, 7d),
\* the uptime and the downtime the aggregator computes are non-negative and
\* add up to the total duration of the store's expanded business intervals
\* inside the window, whatever the (sorted) polls and the schedule.
C1_UptimePlusDowntimeIsBusinessTime ==
  call # NoCall =>
    \A w \in 1..3 :
      LET up == call.seconds[w][1]
          down == call.seconds[w][2]
      IN  /\ up >= 0
          /\ down >= 0
          /\ up + down = total_business_seconds(call.biz[w])
          /\ \A i \in 1..Len(call.biz[w]) :
               /\ call.windows[w].start <= call.biz[w][i].start
               /\ call.biz[w][i].end <= call.windows[w].end

\* C1's case: a scheduled store whose polls hold a repeated timestamp and a
\* status that is not active, with both uptime and downtime in the week.
C1_Witness ==
  /\ call # NoCall
  /\ HasSchedule(call.store_id)
  /\ Len(call.polls) = 3
  /\ \E i, j \in 1..Len(call.polls) :
       /\ i < j
       /\ call.polls[i].t = call.polls[j].t
       /\ call.polls[i].status = "inactive"
  /\ call.seconds[3][1] > 0
  /\ call.seconds[3][2] > 0
  /\ call.seconds[2][1] > 0

NoData(store_id) == ~HasPolls(store_id) /\ ~HasSchedule(store_id)

\* C7 as stated: for a store with zero polls and zero schedule rows all six
\* aggregates of the row are 0, for every reference instant.
C7_NoDataAllZero ==
  (call # NoCall /\ NoData(call.store_id)) =>
    /\ call.row.uptime_last_hour_minutes = 0
    /\ call.row.uptime_last_day_hours = 0
    /\ call.row.uptime_last_week_hours = 0
    /\ call.row.downtime_last_hour_minutes = 0
    /\ call.row.downtime_last_day_hours = 0
    /\ call.row.downtime_last_week_hours = 0

\* C7 amended: for a store with zero polls and zero schedule rows the three
\* uptime aggregates are 0 and the three downtime aggregates are the whole
\* windows: 60.00 minutes, 24.00 hours and 168.00 hours (the store counts as
\* open around the clock and all of that time as downtime).
C7_NoDataAllDowntime ==
  (call # NoCall /\ NoData(call.store_id)) =>
    /\ call.row.uptime_last_hour_minutes = 0
    /\ call.row.uptime_last_day_hours = 0
    /\ call.row.uptime_last_week_hours = 0
    /\ call.row.downtime_last_hour_minutes = 6000
    /\ call.row.downtime_last_day_hours = 2400
    /\ call.row.downtime_last_week_hours = 16800

\* C7's case: the aggregator has run for a store known only through its
\* timezone row, while the other store has polls.
C7_Witness ==
  /\ call # NoCall
  /\ NoData(call.store_id)
  /\ call.store_id \in DOMAIN store_timezones
  /\ Len(polls) > 0

\* C8: the report is a function of the multiset of polls: whatever the order
\* in which the polls were ingested, and so whatever the order the query
\* gives polls of one store that share a timestamp, the aggregates of every
\* store are the same.
C8_IngestionOrderIrrelevant ==
  \A store_id \in StoreIds, now_utc \in NowChoices :
    \A r1, r2 \in compute_uptime_for_store_internal(polls, business_hours,
                                                   store_timezones, store_id, now_utc) :
      r1.row = r2.row

Sorted(ivs) == \A i \in 1..(Len(ivs) - 1) : ivs[i].start <= ivs[i + 1].start
NonOverlapping(ivs) ==
  \A i, j \in 1..Len(ivs) : i < j => overlap_seconds(ivs[i], ivs[j]) = 0
WithinExtendedWindow(c) ==
  \A i \in 1..Len(c.status_intervals) :
    /\ c.status_intervals[i].start < c.status_intervals[i].end
    /\ c.overall_start - c.margin <= c.status_intervals[i].start
    /\ c.status_intervals[i].end <= c.overall_end + c.margin
Covers(ivs, from, to) ==
  \A t \in from..(to - 1) : \E i \in 1..Len(ivs) : ivs[i].start <= t /\ t < ivs[i].end

\* C9 as stated: for a non-empty sorted poll list the status intervals are
\* sorted by start, pairwise non-overlapping, non-empty, inside
\* [W.start - M, W.end + M], and their union covers the whole reconstruction
\* window [W.start, W.end].
C9_IntervalsCoverWindow ==
  (call # NoCall /\ call.polls # << >>) =>
    /\ Sorted(call.status_intervals)
    /\ NonOverlapping(call.status_intervals)
    /\ WithinExtendedWindow(call)
    /\ Covers(call.status_intervals, call.overall_start, call.overall_end)

\* C9 amended: for a non-empty poll list sorted by timestamp, the timestamps
\* in [W.start - M, W.end + M] (what the aggregator fetches), the status
\* intervals are sorted by start, pairwise non-overlapping, non-empty, inside
\* [W.start - M, W.end + M], and they follow one another without a gap from
\* max(first poll - M, W.start - M) to min(last poll + M, W.end + M): their
\* union is that one interval, which need not cover [W.start, W.end].
C9_IntervalsPartitionPollSpan ==
  (call # NoCall /\ call.polls # << >>) =>
    LET ivs == call.status_intervals
        n == Len(ivs)
        first == call.polls[1].t
        last == call.polls[Len(call.polls)].t
    IN  /\ Sorted(ivs)
        /\ NonOverlapping(ivs)
        /\ WithinExtendedWindow(call)
        /\ n >= 1
        /\ ivs[1].start = Max(first - call.margin, call.overall_start - call.margin)
        /\ ivs[n].end = Min(last + call.margin, call.overall_end + call.margin)
        /\ \A i \in 1..(n - 1) : ivs[i].end = ivs[i + 1].start

\* C9's case: three polls, two of them at one instant, reconstructed into
\* more than one interval that leave part of the window uncovered.
C9_Witness ==
  /\ call # NoCall
  /\ Len(call.polls) = 3
  /\ \E i \in 1..2 : call.polls[i].t = call.polls[i + 1].t
  /\ Len(call.status_intervals) = 2
  /\ ~Covers(call.status_intervals, call.overall_start, call.overall_end)


(***************************************************************************)
(* Properties of the job API and the orchestrator (specification Spec).    *)
(***************************************************************************)
Stores == Range(_gather_store_ids(polls, business_hours, store_timezones))
StoreIdsOf(rows) == {rows[i].store_id : i \in 1..Len(rows)}
AggregatorRows(sid, now_utc) ==
  {run.row : run \in compute_uptime_for_store_internal(polls, business_hours,
                                                       store_timezones, sid, now_utc)}
Ascending(rows) ==
  \A i, j \in 1..Len(rows) :
    i < j => StoreRank(rows[i].store_id) < StoreRank(rows[j].store_id)

\* C2: the rows of the CSV generate_report writes are in ascending store_id
\* order, whatever the order in which the workers complete.
C2_CsvRowsAscending ==
  \A r \in ReportIds : files[r].state = "complete" => Ascending(files[r].rows)

\* One row for each store; the row of a store whose worker raised is the
\* zero row, the row of any other store is the aggregator's.
OneRowPerStore(rows) ==
  /\ Len(rows) = Cardinality(Stores)
  /\ StoreIdsOf(rows) = Stores
RowsAsCollected(t) ==
  \A i \in 1..Len(t.rows) :
    LET sid == t.rows[i].store_id
    IN  IF t.futures[sid].exc
        THEN t.rows[i] = ZeroRow(sid)
        ELSE t.rows[i] \in AggregatorRows(sid, t.now_utc)

\* C3: when generate_report finishes, the result set has exactly one row
\* for each distinct store id of polls, business hours and timezones; a
\* store whose worker raised has its row, with the six values 0, the rows of
\* the other stores are the aggregator's, and the job ends Complete: it is
\* Failed only when generate_report or a job-state update raised.
C3_WorkerFailureKeepsReport ==
  \A r \in DOMAIN task :
    /\ task[r].pc = "write_csv" /\ task[r].total > 0 =>
         /\ OneRowPerStore(task[r].rows)
         /\ RowsAsCollected(task[r])
    /\ files[r].state = "complete" => OneRowPerStore(files[r].rows)
    /\ task[r].pc = "done" /\ task[r].fault = "none" =>
         reports[r].status = "Complete"
    /\ reports[r].status = "Failed" => task[r].fault # "none"

\* C3's case: a run in which the worker of A raised and the worker of B did
\* not has written both rows, A's all zero, and has ended Complete.
C3_Witness ==
  \E r \in DOMAIN task :
    /\ task[r].pc = "done"
    /\ reports[r].status = "Complete"
    /\ files[r].state = "complete"
    /\ \E i, j \in 1..Len(files[r].rows) :
         /\ files[r].rows[i] = ZeroRow("A")
         /\ files[r].rows[j].store_id = "B"
         /\ files[r].rows[j] # ZeroRow("B")

\* C4: get_report answers NotFound for an unknown report_id; for a known
\* one, Running with percent_complete while the job runs, Complete with
\* csv_path after success, Failed after failure; no other status.
C4_GetReportResponse ==
  response.op = "get_report" =>
    /\ response.status \in {"NotFound", "Running", "Complete", "Failed"}
    /\ response.seen = "none" =>
         response.status = "NotFound" /\ response.keys = {"status"}
    /\ response.seen = "Running" =>
         response.status = "Running" /\ response.keys = {"status", "percent_complete"}
    /\ response.seen = "Complete" =>
         /\ response.status = "Complete"
         /\ response.keys = {"status", "csv_path"}
         /\ response.csv_path = OutPath(response.report_id)
    /\ response.seen = "Failed" =>
         response.status = "Failed" /\ response.keys = {"status"}

\* C5: the percent_complete values written to the job-state row of a report
\* never decrease over the run, for every completion order and store count
\* (zero included), and the last value written, with the terminal status,
\* is 100.
C5_ProgressMonotoneEndsAtHundred ==
  /\ [][\A r \in DOMAIN reports :
          Leq(reports[r].percent_complete, reports'[r].percent_complete)]_vars
  /\ [](\A r \in DOMAIN reports :
          reports[r].status # "Running" \/ reports[r].finished_at = "set" =>
            reports[r].percent_complete = Hundred)

\* C5's case: a run over two stores, each collected, has ended Complete
\* with 100 in its row.
C5_Witness ==
  \E r \in DOMAIN reports :
    /\ task[r].pc = "done"
    /\ reports[r].status = "Complete"
    /\ reports[r].percent_complete = Hundred
    /\ Len(files[r].rows) = 2
    /\ \A sid \in Stores : task[r].executed[sid] = 2

\* C6: when generate_report fails at report level (makedirs, choosing now,
\* enumerating the stores or writing the CSV raises) the job row ends Failed
\* with finished_at set and there is no CSV, partial or complete, at the
\* output path; and a job that ends Failed never has a written CSV.
\* (Stated for the runs whose except branch commits its update of the row.)
C6_ReportFailureLeavesNoCsv ==
  \A r \in DOMAIN task :
    task[r].pc = "done" /\ reports[r].status = "Failed" =>
      /\ reports[r].finished_at = "set"
      /\ files[r].state = "absent"

\* C10: every session an operation opens is closed when the operation has
\* returned or raised: none is open once a handler has answered, and none
\* at all when no report task is running.
C10_NoSessionLeftOpen ==
  /\ open_sessions["trigger_report"] = 0
  /\ open_sessions["get_report"] = 0
  /\ open_sessions["compute_uptime_for_store_internal"] = 0
  /\ open_sessions["generate_report"] = 0
  /\ (\A r \in DOMAIN task : task[r].pc \in {"scheduled", "done"}) =>
       open_sessions["_run_and_store"] = 0


\* C11: during one run of generate_report the aggregator is dispatched and
\* executed exactly once for each enumerated store id (never more while the
\* run goes on, once when the stores have all been collected), and the
\* result or exception of every execution is collected into the result set.
C11_AggregatorRunsOncePerStore ==
  \A r \in DOMAIN task :
    \A sid \in DOMAIN task[r].executed :
      /\ task[r].executed[sid] <= 1
      /\ task[r].pc \in {"write_csv", "final_update", "returned", "done"} =>
           task[r].executed[sid] = 1
      /\ task[r].futures # << >> /\ task[r].futures[sid].state = "collected" =>
           task[r].executed[sid] = 1

\* C12: once the background task _run_and_store of a report has ended,
\* normally or by an exception (a failing job-state read or commit
\* included), the status of the job row is Complete or Failed, and a
\* terminal status never changes afterwards.
C12_EndedTaskLeavesRunning ==
  /\ [](\A r \in DOMAIN task :
          task[r].pc = "done" => reports[r].status \in {"Complete", "Failed"})
  /\ [][\A r \in DOMAIN reports :
          reports[r].status \in {"Complete", "Failed"} =>
            reports'[r].status = reports[r].status]_vars

====
